---- MODULE Spec2Model ----
(***************************************************************************)
(* A model of package envconfig (src/envconfig.go): field discovery        *)
(* (gatherInfo), value resolution (processInfo), coercion (processField),  *)
(* the orchestration of ProcessWithOptions in its sequential and parallel  *)
(* modes, and CheckDisallowedWithOptions.                                  *)
(*                                                                         *)
(* Go strings are sequences of one-character strings, so that upper-casing,*)
(* prefix tests and splitting are computed and not assumed.                *)
(***************************************************************************)
EXTENDS Integers, Sequences, FiniteSets, TLC

VARIABLES
    prefix,     \* the prefix argument of the call
    fields,     \* the declared fields of the specification struct (its type)
    options,    \* the Options of the call now running
    environ,    \* the process environment: a sequence of "NAME=value" strings
    store,      \* the live struct value: field path -> value
    store0,     \* the struct value when the harness started (for comparison)
    infos,      \* the descriptors gatherInfo returned
    pc,         \* position of the calling goroutine inside the entry point
    idx,        \* index of the range loop the caller is in
    gpc,        \* parallel mode: position of every spawned goroutine
    gres,       \* the error processInfo returned for every descriptor
    wg,         \* parallel mode: the WaitGroup counter
    errCh,      \* parallel mode: the buffered channel's content
    allErrs,    \* parallel mode: the errors drained from the channel
    ret,        \* the error the entry point returned
    handed,     \* observation: per descriptor, the strings given to processField
    resolved,   \* observation: per descriptor, how often processInfo ran on it
    first       \* the outcome of the first of the harness's two calls

vars == <<prefix, fields, options, environ, store, store0, infos, pc, idx,
          gpc, gres, wg, errCh, allErrs, ret, handed, resolved, first>>

-----------------------------------------------------------------------------
(* Strings *)

LowerChars == <<"a","b","c","d","e","f","g","h","i","j","k","l","m",
                "n","o","p","q","r","s","t","u","v","w","x","y","z">>
UpperChars == <<"A","B","C","D","E","F","G","H","I","J","K","L","M",
                "N","O","P","Q","R","S","T","U","V","W","X","Y","Z">>

IsUpper(c) == \E k \in 1..Len(UpperChars) : UpperChars[k] = c

ToUpperChar(c) ==
    IF \E k \in 1..Len(LowerChars) : LowerChars[k] = c
    THEN UpperChars[CHOOSE k \in 1..Len(LowerChars) : LowerChars[k] = c]
    ELSE c

\* strings.ToUpper
ToUpper(s) == [k \in 1..Len(s) |-> ToUpperChar(s[k])]

\* strings.HasPrefix
HasPrefix(s, p) == Len(s) >= Len(p) /\ SubSeq(s, 1, Len(p)) = p

\* index of the first occurrence of character c in s, 0 when there is none
IndexOf(s, c) ==
    IF \E k \in 1..Len(s) : s[k] = c
    THEN CHOOSE k \in 1..Len(s) : s[k] = c /\ \A j \in 1..(k-1) : s[j] # c
    ELSE 0

\* strings.Split(s, sep) for a one-character separator: one piece more than
\* there are separators, empty pieces kept
RECURSIVE Split(_, _)
Split(s, c) ==
    LET k == IndexOf(s, c) IN
    IF k = 0 THEN <<s>>
    ELSE <<SubSeq(s, 1, k-1)>> \o Split(SubSeq(s, k+1, Len(s)), c)

\* strings.SplitN(s, sep, 2)[0]
SplitN2First(s, c) ==
    LET k == IndexOf(s, c) IN IF k = 0 THEN s ELSE SubSeq(s, 1, k-1)

\* strings.Join(parts, sep)
RECURSIVE Join(_, _)
Join(parts, sep) ==
    IF Len(parts) = 0 THEN <<>>
    ELSE IF Len(parts) = 1 THEN parts[1]
    ELSE parts[1] \o sep \o Join(Tail(parts), sep)

\* len(strings.TrimSpace(s)) == 0, for the white space of the model: " "
IsBlank(s) == \A k \in 1..Len(s) : s[k] = " "

\* the concatenation of the sequences ss[i], ss[i+1], ...
RECURSIVE FlattenFrom(_, _)
FlattenFrom(ss, i) ==
    IF i > Len(ss) THEN <<>> ELSE ss[i] \o FlattenFrom(ss, i + 1)

\* the concatenation of a sequence of sequences
Flatten(ss) == CHOOSE r \in {FlattenFrom(v, 1) : v \in {ss}} : TRUE

\* strconv.ParseBool: the literals it accepts
TrueLits  == { <<"1">>, <<"t">>, <<"T">>, <<"T","R","U","E">>,
               <<"t","r","u","e">>, <<"T","r","u","e">> }
FalseLits == { <<"0">>, <<"f">>, <<"F">>, <<"F","A","L","S","E">>,
               <<"f","a","l","s","e">>, <<"F","a","l","s","e">> }

isTrue(s) == s \in TrueLits

isFalse(s) == s \in FalseLits

-----------------------------------------------------------------------------
(* Key derivation: the two regular expressions of gatherInfo *)

\* length of the longest run of upper-case (up = TRUE) or of other
\* (up = FALSE) characters that s starts with
RECURSIVE RunLen(_, _)
RunLen(s, up) ==
    IF Len(s) = 0 \/ IsUpper(s[1]) # up THEN 0
    ELSE 1 + RunLen(Tail(s), up)

\* gatherRegexp.FindAllStringSubmatch(name, -1): the successive leftmost
\* matches of  [^A-Z]+ | [A-Z]+[^A-Z]+ | [A-Z]+
RECURSIVE gatherWords(_)
gatherWords(s) ==
    IF Len(s) = 0 THEN <<>>
    ELSE LET n0 == RunLen(s, FALSE)
             u  == RunLen(s, TRUE)
             n1 == RunLen(SubSeq(s, u+1, Len(s)), FALSE)
             w  == IF n0 > 0 THEN n0 ELSE u + n1
         IN <<SubSeq(s, 1, w)>> \o gatherWords(SubSeq(s, w+1, Len(s)))

\* acronymRegexp.FindStringSubmatch(word) for ([A-Z]+)([A-Z][^A-Z]+) on a word
\* gatherRegexp produced: it matches a run of two or more capitals followed by
\* other characters, and gives the capitals but the last, and the rest
acronymSplit(w) ==
    LET u == RunLen(w, TRUE) IN
    IF u >= 2 /\ Len(w) > u
    THEN <<SubSeq(w, 1, u-1), SubSeq(w, u, Len(w))>>
    ELSE <<w>>

splitWordsKey(name) ==
    LET words == gatherWords(name) IN
    IF Len(words) > 0
    THEN Join(Flatten([k \in 1..Len(words) |-> acronymSplit(words[k])]), <<"_">>)
    ELSE name

-----------------------------------------------------------------------------
(* Types and values                                                        *)
(*                                                                         *)
(* A field declaration (reflect.StructField with the reflect.Type of the   *)
(* field) is a record                                                      *)
(*   Name, Anonymous, CanSet, Tag, Ptr, Kind, Elem, Decoder, Fields        *)
(* Kind is the kind behind the optional pointer: "string", "int", "bool",  *)
(* "slice" (of Elem), "map" (string keys, Elem values) or "struct";        *)
(* Decoder says that a struct type implements Decoder (its Decode is user  *)
(* code: here it keeps the string it is given).                            *)
(*                                                                         *)
(* The struct value is store: path -> content, a path being the field      *)
(* indexes from the root.  A pointer field holds <<>> (nil) or <<v>>.      *)
(***************************************************************************)

NoTag == [ignored |-> <<>>, envconfig |-> <<>>, split_words |-> <<>>,
          default |-> <<>>, required |-> <<>>]

Leaf(name, kind, tag) ==
    [Name |-> name, Anonymous |-> FALSE, CanSet |-> TRUE, Tag |-> tag,
     Ptr |-> FALSE, Kind |-> kind, Elem |-> "string", Decoder |-> FALSE,
     Fields |-> <<>>]

Struct(name, anonymous, ptr, tag, flds) ==
    [Name |-> name, Anonymous |-> anonymous, CanSet |-> TRUE, Tag |-> tag,
     Ptr |-> ptr, Kind |-> "struct", Elem |-> "string", Decoder |-> FALSE,
     Fields |-> flds]

\* the zero value of what a field (or its pointer) holds; an empty map and a
\* nil slice are the empty function <<>>
ZeroElem(ftype) ==
    CASE ftype.Kind = "int"    -> 0
      [] ftype.Kind = "bool"   -> FALSE
      [] ftype.Kind = "struct" /\ ~ftype.Decoder -> "struct"
      [] OTHER                 -> <<>>

ZeroField(ftype) == IF ftype.Ptr THEN <<>> ELSE ZeroElem(ftype)

\* a struct type's fields are themselves stored when it is recursed into
IsRecursed(ftype) == ftype.Kind = "struct" /\ ~ftype.Decoder

\* every path of the struct value
RECURSIVE Paths(_, _)
Paths(flds, path) ==
    UNION { {path \o <<k>>} \cup
            (IF IsRecursed(flds[k])
             THEN Paths(flds[k].Fields, path \o <<k>>) ELSE {})
          : k \in 1..Len(flds) }

\* the declaration a path leads to
RECURSIVE DeclAt(_, _)
DeclAt(flds, path) ==
    IF Len(path) = 1 THEN flds[path[1]]
    ELSE DeclAt(flds[path[1]].Fields, Tail(path))

\* the zero value of the whole struct
ZeroStore(flds) ==
    [p \in Paths(flds, <<>>) |-> ZeroField(DeclAt(flds, p))]

-----------------------------------------------------------------------------
(* gatherInfo *)

\* a field gatherInfo looks at: settable and not tagged ignored
Retained(ftype) == ftype.CanSet /\ ~isTrue(ftype.Tag.ignored)

\* the key of one field under a prefix
fieldKey(pfx, ftype, opts) ==
    LET alt   == ToUpper(ftype.Tag.envconfig)
        sw    == ftype.Tag.split_words
        base  == IF isTrue(sw) \/ (opts.SplitWords /\ ~isFalse(sw))
                 THEN splitWordsKey(ftype.Name) ELSE ftype.Name
        key1  == IF alt # <<>> THEN alt ELSE base
        key2  == IF pfx # <<>> THEN pfx \o <<"_">> \o key1 ELSE key1
    IN ToUpper(key2)

\* the prefix gatherInfo recurses with
innerPrefixOfNamed(pfx, ftype, opts) == fieldKey(pfx, ftype, opts)

innerPrefix(pfx, ftype, opts) ==
    IF ~ftype.Anonymous THEN fieldKey(pfx, ftype, opts) ELSE pfx

\* the descriptors, in order.  st is the struct value when gatherInfo starts:
\* only a nil pointer to a non-struct stays a pointer in its descriptor.
RECURSIVE gatherInfo(_, _, _, _, _)
gatherInfo(pfx, flds, path, st, opts) ==
    LET one(k) ==
          LET ftype == flds[k]
              p     == path \o <<k>>
              isPtr == ftype.Ptr /\ ftype.Kind # "struct" /\ st[p] = <<>>
              info  == [Name  |-> ftype.Name,
                        Alt   |-> ToUpper(ftype.Tag.envconfig),
                        Key   |-> fieldKey(pfx, ftype, opts),
                        Field |-> [path |-> p, Ptr |-> isPtr,
                                   Boxed |-> ftype.Ptr, Kind |-> ftype.Kind,
                                   Elem |-> ftype.Elem,
                                   Decoder |-> ftype.Decoder],
                        Tags  |-> ftype.Tag]
          IN IF ~Retained(ftype) THEN <<>>
             ELSE IF IsRecursed(ftype)
                  THEN gatherInfo(innerPrefix(pfx, ftype, opts), ftype.Fields,
                                  p, st, opts)
                  ELSE <<info>>
    IN Flatten([k \in 1..Len(flds) |-> one(k)])

\* the nil pointers to structs gatherInfo allocates on its way
RECURSIVE allocated(_, _, _)
allocated(flds, path, st) ==
    UNION { IF ~Retained(flds[k]) THEN {}
            ELSE (IF flds[k].Ptr /\ flds[k].Kind = "struct"
                     /\ st[path \o <<k>>] = <<>>
                  THEN {path \o <<k>>} ELSE {})
                 \cup
                 (IF IsRecursed(flds[k])
                  THEN allocated(flds[k].Fields, path \o <<k>>, st) ELSE {})
          : k \in 1..Len(flds) }

\* the struct value gatherInfo leaves behind
gatherStore(flds, st) ==
    [p \in DOMAIN st |->
        IF p \in allocated(flds, <<>>, st)
        THEN <<ZeroElem(DeclAt(flds, p))>> ELSE st[p]]

-----------------------------------------------------------------------------
(* processField *)

Digits == <<"0","1","2","3","4","5","6","7","8","9">>

IsDigit(c) == \E k \in 1..Len(Digits) : Digits[k] = c

DigitVal(c) == (CHOOSE k \in 1..Len(Digits) : Digits[k] = c) - 1

RECURSIVE DecimalVal(_)
DecimalVal(s) ==
    IF Len(s) = 0 THEN 0
    ELSE 10 * DecimalVal(SubSeq(s, 1, Len(s)-1)) + DigitVal(s[Len(s)])

\* decimal digits without a leading zero
IsNumber(body) ==
    /\ Len(body) > 0
    /\ \A k \in 1..Len(body) : IsDigit(body[k])
    /\ (Len(body) > 1 => body[1] # "0")

ParseDigits(sign, body) ==
    IF IsNumber(body)
    THEN [ok |-> TRUE,
          val |-> IF sign = "-" THEN 0 - DecimalVal(body) ELSE DecimalVal(body)]
    ELSE [ok |-> FALSE, val |-> 0]

\* strconv.ParseInt(value, 0, bits) on the strings the model draws: an
\* optional sign and decimal digits without a leading zero (base prefixes and
\* underscores are never drawn, and no drawn number leaves the bit width)
ParseInt(value) ==
    IF Len(value) > 0 /\ value[1] \in {"+", "-"}
    THEN ParseDigits(value[1], Tail(value))
    ELSE ParseDigits("+", value)

\* strconv.ParseBool
ParseBool(value) ==
    [ok |-> isTrue(value) \/ isFalse(value), val |-> isTrue(value)]

NoCause == [what |-> "none", item |-> <<>>]

SyntaxError == [what |-> "syntax", item |-> <<>>]

\* fmt.Errorf("invalid map item: %q", pair)
InvalidMapItem(pair) == [what |-> "invalid map item", item |-> pair]

\* what the cases of the switch do with the result r of a strconv parser
parsed(r) == [err |-> IF r.ok THEN NoCause ELSE SyntaxError, val |-> r.val]

\* processField on a string, int or bool: [err, val]
scalarField(value, kind) ==
    CASE kind = "int"  -> parsed(ParseInt(value))
      [] kind = "bool" -> parsed(ParseBool(value))
      [] OTHER         -> [err |-> NoCause, val |-> value]

\* the first index of rs that holds an error, 0 when none does
firstError(rs) ==
    IF \E k \in 1..Len(rs) : rs[k].err # NoCause
    THEN CHOOSE k \in 1..Len(rs) :
           rs[k].err # NoCause /\ \A j \in 1..(k-1) : rs[j].err = NoCause
    ELSE 0

\* lines 377-384: the elements are converted in order, the first error returns
sliceOf(rs) ==
    IF firstError(rs) # 0
    THEN [err |-> rs[firstError(rs)].err, val |-> <<>>]
    ELSE [err |-> NoCause, val |-> [k \in 1..Len(rs) |-> rs[k].val]]

sliceElems(vals, elem) == [k \in 1..Len(vals) |-> scalarField(vals[k], elem)]

\* the slice case: [err, val]
sliceField(value, elem) ==
    IF IsBlank(value) THEN [err |-> NoCause, val |-> <<>>]
    ELSE sliceOf(sliceElems(Split(value, ","), elem))

\* line 390: kvpair := strings.Split(pair, ":")
\* strings.SplitN(pair, ":", 2): a split on the first colon only
kvpairFirstColon(pair) ==
    IF IndexOf(pair, ":") = 0 THEN <<pair>>
    ELSE <<SubSeq(pair, 1, IndexOf(pair, ":") - 1),
           SubSeq(pair, IndexOf(pair, ":") + 1, Len(pair))>>

kvpairOf(pair) == Split(pair, ":")

\* lines 399-400: the value side of a pair that has two parts
pairValue(key, r) == [err |-> r.err, key |-> key, val |-> r.val]

\* lines 391-403 for one pair: [err, key, val]
pairEntry(pair, kvpair, elem) ==
    IF Len(kvpair) # 2
    THEN [err |-> InvalidMapItem(pair), key |-> <<>>, val |-> <<>>]
    ELSE pairValue(scalarField(kvpair[1], "string").val,
                   scalarField(kvpair[2], elem))

mapEntries(pairs, elem) ==
    [k \in 1..Len(pairs) |-> pairEntry(pairs[k], kvpairOf(pairs[k]), elem)]

\* line 404: SetMapIndex in the order of the pairs: the last pair with a key
\* is the one whose value stays
lastOf(es, key) ==
    CHOOSE k \in 1..Len(es) :
      es[k].key = key /\ \A j \in (k+1)..Len(es) : es[j].key # key

\* lines 389-407: the first pair in error returns it, and nothing is set
mapOf(es) ==
    IF firstError(es) # 0
    THEN [err |-> es[firstError(es)].err, val |-> <<>>]
    ELSE [err |-> NoCause,
          val |-> [key \in {es[k].key : k \in 1..Len(es)} |->
                     es[lastOf(es, key)].val]]

\* the map case: [err, val]
mapField(value, elem) ==
    IF IsBlank(value) THEN [err |-> NoCause, val |-> <<>>]
    ELSE mapOf(mapEntries(Split(value, ","), elem))

\* the conversion of processField: [err, val]
converted(value, field) ==
    CASE field.Decoder        -> [err |-> NoCause, val |-> value]
      [] field.Kind = "slice" -> sliceField(value, field.Elem)
      [] field.Kind = "map"   -> mapField(value, field.Elem)
      [] OTHER                -> scalarField(value, field.Kind)

\* what the field's storage holds after a conversion with result r, cur being
\* what it held before.  A nil pointer is allocated before the string is
\* parsed (lines 324-330) and stays so when parsing fails; a failing
\* conversion writes nothing else.
stored(field, cur, r) ==
    [err |-> r.err,
     val |-> IF r.err # NoCause
             THEN (IF field.Ptr THEN <<ZeroElem(field)>> ELSE cur)
             ELSE IF field.Boxed THEN <<r.val>> ELSE r.val]

\* processField(value, field): [err, val]
processField(value, field, cur) == stored(field, cur, converted(value, field))

-----------------------------------------------------------------------------
(* processInfo *)

NoError ==
    [type |-> "nil", key |-> <<>>, field |-> <<>>, value |-> <<>>,
     cause |-> NoCause, all |-> <<>>]

\* fmt.Errorf("required key %s missing value", key)
RequiredMissing(key) == [NoError EXCEPT !.type = "required", !.key = key]

\* &ParseError{KeyName, FieldName, Value, Err}
ParseError(info, value, cause) ==
    [NoError EXCEPT !.type = "parse", !.key = info.Key, !.field = info.Name,
                    !.value = value, !.cause = cause]

\* fmt.Errorf("multiple errors: %v", allErrs)
MultipleErrors(errs) == [NoError EXCEPT !.type = "multiple", !.all = errs]

\* fmt.Errorf("unknown environment variable %s", v)
UnknownVariable(v) == [NoError EXCEPT !.type = "unknown", !.key = v]

\* the entries of the environment that set the variable called key
EntriesOf(key) ==
    {k \in 1..Len(environ) : HasPrefix(environ[k], key \o <<"=">>)}

entryValue(key, es) ==
    [value |-> SubSeq(environ[CHOOSE k \in es : \A j \in es : k <= j],
                      Len(key) + 2,
                      Len(environ[CHOOSE k \in es : \A j \in es : k <= j])),
     ok |-> TRUE]

found(key, es) ==
    IF es = {} THEN [value |-> <<>>, ok |-> FALSE] ELSE entryValue(key, es)

\* lookupEnv(key): os.LookupEnv, which tells a variable set to "" from one
\* that is not set
lookupEnv(key) == found(key, EntriesOf(key))

\* lines 258-260: l is what the lookup of Key gave
altLookup(info, l) ==
    IF ~l.ok /\ info.Alt # <<>> THEN lookupEnv(info.Alt) ELSE l

\* lines 257-260: the value found under Key, else under Alt
lookupBoth(info) == altLookup(info, lookupEnv(info.Key))

\* the default standing in for an empty value, as with os.Getenv
valueOrDefaultWhenEmpty(def, l) ==
    IF def # <<>> /\ l.value = <<>> THEN def ELSE l.value

\* lines 262-265: the default stands in for a value that was not found
valueOrDefault(def, l) == IF def # <<>> /\ ~l.ok THEN def ELSE l.value

\* the Required option overriding a required:"false" tag
isRequiredDespiteTag(req, opts) == isTrue(req) \/ opts.Required

\* line 269: is a field without a value an error
isRequired(req, opts) == isTrue(req) \/ (opts.Required /\ ~isFalse(req))

\* lines 270-273: the key a required-value error names
missingKey(info) == IF info.Alt # <<>> THEN info.Alt ELSE info.Key

\* lines 279-288: r is what processField returned for value
wrapped(info, value, r) ==
    [err |-> IF r.err # NoCause THEN ParseError(info, value, r.err)
             ELSE NoError,
     val |-> r.val, handed |-> <<value>>]

coerce(info, cur, value) ==
    wrapped(info, value, processField(value, info.Field, cur))

\* a variable that is not set read as the empty string, as with os.Getenv
resolveAlways(info, opts, cur, l) ==
    coerce(info, cur, valueOrDefault(info.Tags.default, l))

\* lines 262-288: l is what the lookups gave
resolveWith(info, opts, cur, l) ==
    IF ~l.ok /\ info.Tags.default = <<>>
    THEN [err |-> IF isRequired(info.Tags.required, opts)
                  THEN RequiredMissing(missingKey(info)) ELSE NoError,
          val |-> cur, handed |-> <<>>]
    ELSE coerce(info, cur, valueOrDefault(info.Tags.default, l))

\* processInfo(info, options) with cur the content of info.Field before:
\* [err, val, handed], val the content afterwards and handed the strings it
\* gave to processField (none or one)
processInfo(info, opts, cur) == resolveWith(info, opts, cur, lookupBoth(info))

-----------------------------------------------------------------------------
(* ProcessWithOptions *)

NoCall == [done |-> FALSE, store |-> <<>>, ret |-> NoError, idx |-> 0]

\* the state a call of an entry point starts from
Fresh ==
    /\ infos = <<>> /\ idx = 1 /\ gpc = <<>> /\ gres = <<>> /\ wg = 0
    /\ errCh = <<>> /\ allErrs = <<>> /\ ret = NoError
    /\ handed = <<>> /\ resolved = <<>>

\* the same, of the next state
FreshNext ==
    /\ infos' = <<>> /\ idx' = 1 /\ gpc' = <<>> /\ gres' = <<>> /\ wg' = 0
    /\ errCh' = <<>> /\ allErrs' = <<>> /\ ret' = NoError
    /\ handed' = <<>> /\ resolved' = <<>>

\* line 207: gatherInfo, which allocates the nil struct pointers it meets
Gather ==
    /\ pc = "call"
    /\ \E ds \in {gatherInfo(prefix, fields, <<>>, store, options)} :
          /\ infos' = ds
          /\ gpc' = [k \in 1..Len(ds) |-> "none"]
          /\ gres' = [k \in 1..Len(ds) |-> NoError]
          /\ handed' = [k \in 1..Len(ds) |-> <<>>]
          /\ resolved' = [k \in 1..Len(ds) |-> 0]
    /\ store' = gatherStore(fields, store)
    /\ pc' = IF options.ParallelExcecution THEN "spawn" ELSE "seq"
    /\ idx' = 1
    /\ UNCHANGED <<prefix, fields, options, environ, store0, wg, errCh,
                   allErrs, ret, first>>

\* processInfo on descriptor k, writing through its Field
Resolve(k, r) ==
    /\ store' = [store EXCEPT ![infos[k].Field.path] = r.val]
    /\ handed' = [handed EXCEPT ![k] = @ \o r.handed]
    /\ resolved' = [resolved EXCEPT ![k] = @ + 1]

\* SeqStep with the error of a descriptor not returned: the loop goes on
SeqStepNoReturn ==
    /\ pc = "seq" /\ idx <= Len(infos)
    /\ \E r \in {processInfo(infos[idx], options,
                               store[infos[idx].Field.path])} :
          /\ Resolve(idx, r) /\ gres' = [gres EXCEPT ![idx] = r.err]
          /\ ret' = r.err /\ pc' = pc /\ idx' = idx + 1
    /\ UNCHANGED <<prefix, fields, options, environ, store0, infos, gpc,
                   wg, errCh, allErrs, first>>

\* lines 241-246: one turn of the sequential loop
SeqStep ==
    /\ pc = "seq" /\ idx <= Len(infos)
    /\ \E r \in {processInfo(infos[idx], options,
                               store[infos[idx].Field.path])} :
          /\ Resolve(idx, r) /\ gres' = [gres EXCEPT ![idx] = r.err]
          /\ IF r.err # NoError
             THEN ret' = r.err /\ pc' = "returned" /\ idx' = idx
             ELSE ret' = ret /\ pc' = pc /\ idx' = idx + 1
    /\ UNCHANGED <<prefix, fields, options, environ, store0, infos, gpc,
                   wg, errCh, allErrs, first>>

\* line 247
SeqReturn ==
    /\ pc = "seq" /\ idx > Len(infos)
    /\ ret' = NoError /\ pc' = "returned"
    /\ UNCHANGED <<prefix, fields, options, environ, store, store0, infos, idx,
                   gpc, gres, wg, errCh, allErrs, handed, resolved, first>>

\* an unbuffered channel: make(chan error)
errChUnbuffered == Len(<<>>)

\* line 214: make(chan error, len(infos))
errChCap == Len(infos)

\* lines 216-223: wg.Add(1) and the go statement, for one descriptor; after
\* the last one the caller is at wg.Wait()
Spawn ==
    /\ pc = "spawn"
    /\ IF idx <= Len(infos)
       THEN /\ wg' = wg + 1
            /\ gpc' = [gpc EXCEPT ![idx] = "run"]
            /\ idx' = idx + 1 /\ pc' = pc
       ELSE /\ pc' = "wait"
            /\ UNCHANGED <<wg, gpc, idx>>
    /\ UNCHANGED <<prefix, fields, options, environ, store, store0, infos,
                   gres, errCh, allErrs, ret, handed, resolved, first>>

\* GoRun with the closure reading the loop variable instead of its argument:
\* every goroutine sees the last descriptor
GoRunCaptured(g) ==
    /\ gpc[g] = "run"
    /\ \E r \in {processInfo(infos[Len(infos)], options,
                               store[infos[Len(infos)].Field.path])} :
          Resolve(Len(infos), r) /\ gres' = [gres EXCEPT ![g] = r.err]
    /\ gpc' = [gpc EXCEPT ![g] = "send"]
    /\ UNCHANGED <<prefix, fields, options, environ, store0, infos, pc, idx,
                   wg, errCh, allErrs, ret, first>>

\* line 221, right-hand side: the goroutine of descriptor g runs processInfo
GoRun(g) ==
    /\ gpc[g] = "run"
    /\ \E r \in {processInfo(infos[g], options,
                               store[infos[g].Field.path])} :
          Resolve(g, r) /\ gres' = [gres EXCEPT ![g] = r.err]
    /\ gpc' = [gpc EXCEPT ![g] = "send"]
    /\ UNCHANGED <<prefix, fields, options, environ, store0, infos, pc, idx,
                   wg, errCh, allErrs, ret, first>>

\* line 221: the send; it blocks while the channel is full
GoSend(g) ==
    /\ gpc[g] = "send"
    /\ Len(errCh) < errChCap
    /\ errCh' = Append(errCh, gres[g])
    /\ gpc' = [gpc EXCEPT ![g] = "deferred"]
    /\ UNCHANGED <<prefix, fields, options, environ, store, store0, infos, pc,
                   idx, gres, wg, allErrs, ret, handed, resolved, first>>

\* line 220: the deferred wg.Done()
GoDone(g) ==
    /\ gpc[g] = "deferred"
    /\ wg' = wg - 1
    /\ gpc' = [gpc EXCEPT ![g] = "exited"]
    /\ UNCHANGED <<prefix, fields, options, environ, store, store0, infos, pc,
                   idx, gres, errCh, allErrs, ret, handed, resolved, first>>

\* line 225: wg.Wait() returns when the counter is zero
Wait ==
    /\ pc = "wait" /\ wg = 0
    /\ pc' = "close"
    /\ UNCHANGED <<prefix, fields, options, environ, store, store0, infos, idx,
                   gpc, gres, wg, errCh, allErrs, ret, handed, resolved,
                   first>>

\* line 226: close(errCh)
Close ==
    /\ pc = "close"
    /\ pc' = "drain"
    /\ UNCHANGED <<prefix, fields, options, environ, store, store0, infos, idx,
                   gpc, gres, wg, errCh, allErrs, ret, handed, resolved,
                   first>>

\* lines 229-233: one receive from the closed channel
Drain ==
    /\ pc = "drain" /\ Len(errCh) > 0
    /\ errCh' = Tail(errCh)
    /\ allErrs' = IF Head(errCh) # NoError
                  THEN Append(allErrs, Head(errCh)) ELSE allErrs
    /\ UNCHANGED <<prefix, fields, options, environ, store, store0, infos, pc,
                   idx, gpc, gres, wg, ret, handed, resolved, first>>

\* lines 235-239: the closed channel is empty, the range loop ends
ParReturn ==
    /\ pc = "drain" /\ Len(errCh) = 0
    /\ ret' = IF Len(allErrs) > 0 THEN MultipleErrors(allErrs) ELSE NoError
    /\ pc' = "returned"
    /\ UNCHANGED <<prefix, fields, options, environ, store, store0, infos, idx,
                   gpc, gres, wg, errCh, allErrs, handed, resolved, first>>

\* The harness: after the sequential call has returned, the same struct value
\* as before it is processed again with ParallelExcecution set.
SecondCall ==
    /\ pc = "returned" /\ ~first.done
    /\ first' = [done |-> TRUE, store |-> store, ret |-> ret, idx |-> idx]
    /\ store' = store0
    /\ options' = [options EXCEPT !.ParallelExcecution = TRUE]
    /\ pc' = "call"
    /\ FreshNext
    /\ UNCHANGED <<prefix, fields, environ, store0>>

Goroutine(g) == g \in DOMAIN gpc /\ (GoRun(g) \/ GoSend(g) \/ GoDone(g))

Caller ==
    \/ Gather \/ SeqStep \/ SeqReturn
    \/ Spawn \/ Wait \/ Close \/ Drain \/ ParReturn
    \/ SecondCall

Next == Caller \/ \E g \in DOMAIN gpc : Goroutine(g)

-----------------------------------------------------------------------------
(* CheckDisallowedWithOptions *)

\* lines 178-181: the keys of the descriptors
knownVars(ds) == {ds[k].Key : k \in 1..Len(ds)}

\* the prefix compared as it is written, not upper-cased
activePrefixAsWritten(pfx) == IF pfx # <<>> THEN pfx \o <<"_">> ELSE pfx

\* lines 183-185
activePrefix(pfx) == IF pfx # <<>> THEN ToUpper(pfx) \o <<"_">> ELSE pfx

\* line 191: strings.SplitN(env, "=", 2)[0]
envName(env) == SplitN2First(env, "=")

\* line 173
CheckGather ==
    /\ pc = "check"
    /\ infos' = gatherInfo(prefix, fields, <<>>, store, options)
    /\ store' = gatherStore(fields, store)
    /\ pc' = "range" /\ idx' = 1
    /\ UNCHANGED <<prefix, fields, options, environ, store0, gpc, gres, wg,
                   errCh, allErrs, ret, handed, resolved, first>>

\* lines 187-195: one turn of the loop over os.Environ()
CheckStep ==
    /\ pc = "range" /\ idx <= Len(environ)
    /\ IF /\ HasPrefix(environ[idx], activePrefix(prefix))
          /\ envName(environ[idx]) \notin knownVars(infos)
       THEN /\ ret' = UnknownVariable(envName(environ[idx]))
            /\ pc' = "returned" /\ idx' = idx
       ELSE /\ idx' = idx + 1
            /\ UNCHANGED <<ret, pc>>
    /\ UNCHANGED <<prefix, fields, options, environ, store, store0, infos, gpc,
                   gres, wg, errCh, allErrs, handed, resolved, first>>

\* line 197
CheckReturn ==
    /\ pc = "range" /\ idx > Len(environ)
    /\ ret' = NoError /\ pc' = "returned"
    /\ UNCHANGED <<prefix, fields, options, environ, store, store0, infos, idx,
                   gpc, gres, wg, errCh, allErrs, handed, resolved, first>>

NextCheck == CheckGather \/ CheckStep \/ CheckReturn

-----------------------------------------------------------------------------
(* The calls the model makes *)

sApp == <<"a","p","p">>
sPort == <<"P","o","r","t">>
sHost == <<"H","o","s","t">>
sDb == <<"D","b">>
sName == <<"N","a","m","e">>
sSize == <<"S","i","z","e">>
sLog == <<"L","o","g">>
sLevel == <<"L","e","v","e","l">>
sAlt == <<"a","l","t">>
sTrue == <<"t","r","u","e">>
sFalse == <<"f","a","l","s","e">>
sOld == <<"o","l","d">>

\* most top-level fields of a drawn struct
MaxFields == 2

\* the sequences without repetition of at most n elements of S
InjSeqs(S, n) ==
    {q \in UNION {[1..k -> S] : k \in 0..n} :
        \A a, b \in 1..Len(q) : a # b => q[a] # q[b]}

\* a struct value none of whose fields is zero
PresetElem(ftype) ==
    CASE ftype.Kind = "int"    -> 5
      [] ftype.Kind = "bool"   -> TRUE
      [] ftype.Kind = "struct" /\ ~ftype.Decoder -> "struct"
      [] ftype.Kind = "string" \/ ftype.Decoder  -> sOld
      [] ftype.Kind = "slice"  -> <<sOld>>
      [] OTHER                 -> [k \in {sOld} |-> sOld]

PresetStore(flds) ==
    [p \in Paths(flds, <<>>) |->
        IF DeclAt(flds, p).Ptr THEN <<PresetElem(DeclAt(flds, p))>>
        ELSE PresetElem(DeclAt(flds, p))]

Stores(flds) == {ZeroStore(flds), PresetStore(flds)}

\* an environment: for every name, not set (<<>>) or set to a value (<<v>>)
Environ(names, choice) ==
    Flatten([k \in 1..Len(names) |->
               IF choice[k] = <<>> THEN <<>>
               ELSE <<names[k] \o <<"=">> \o choice[k][1]>>])

Choices(vals) == {<<>>} \cup {<<v>> : v \in vals}

\* type Config struct {
\*     Host string `required:"true"`
\*     Db   struct{ Name string; Size int }
\*     Log  *struct{ Level int }
\* }: the fields a drawn struct takes, in any order
MainPool ==
    { Leaf(sHost, "string", [NoTag EXCEPT !.required = sTrue]),
      Struct(sDb, FALSE, FALSE, NoTag,
             <<Leaf(sName, "string", NoTag), Leaf(sSize, "int", NoTag)>>),
      Struct(sLog, FALSE, TRUE, NoTag, <<Leaf(sLevel, "int", NoTag)>>) }

MainVals == { <<"7">>, <<"x">> }

\* the keys of descriptors, in order
KeysOf(ds) == [k \in 1..Len(ds) |-> ds[k].Key]

\* what every call starts from
Start(pfx, flds, opts, env, st) ==
    /\ prefix = pfx /\ fields = flds /\ options = opts /\ environ = env
    /\ store = st /\ store0 = st
    /\ first = NoCall
    /\ Fresh

\* the ways of setting n variables: each not set or set to one of vals, or,
\* when uniform, all of them alike
ChoicesFor(n, vals, uniform) ==
    IF uniform THEN {[k \in 1..n |-> c] : c \in Choices(vals)}
    ELSE [1..n -> Choices(vals)]

\* a sequential call and then a parallel call of ProcessWithOptions, on a
\* struct drawn from structs, with its keys set as ChoicesFor says, from a
\* zero or a preset struct value (a zero one only when uniform)
Calls(structs, vals, uniform) ==
    \E flds \in structs :
    \E st \in (IF uniform THEN {ZeroStore(flds)} ELSE Stores(flds)) :
    \E opts \in {[SplitWords |-> FALSE, Required |-> FALSE,
                  ParallelExcecution |-> FALSE]} :
    \E keys \in {KeysOf(gatherInfo(sApp, flds, <<>>, st, opts))} :
    \E choice \in ChoicesFor(Len(keys), vals, uniform) :
      /\ Start(sApp, flds, opts, Environ(keys, choice), st)
      /\ pc = "call"

Init == Calls(InjSeqs(MainPool, MaxFields), MainVals, FALSE)

Spec == Init /\ [][Next]_vars

InitLive == Calls(InjSeqs(MainPool, MaxFields), {<<"x">>}, TRUE)

\* lines 212-239: the steps of the caller and of the goroutines in the
\* parallel branch
ParallelStep ==
    \/ Spawn \/ Wait \/ Close \/ Drain \/ ParReturn
    \/ \E g \in DOMAIN gpc : Goroutine(g)

\* the Go scheduler runs a goroutine that can run: while a step of the
\* parallel branch is possible, one is taken
LiveSpec == InitLive /\ [][Next]_vars /\ WF_vars(ParallelStep)

\* the strings over an alphabet of at most n characters
Strings(alphabet, n) == UNION {[1..k -> alphabet] : k \in 0..n}

\* processInfo on one field: every combination of the envconfig, default and
\* required tags, of the Required option and of the variables named by the
\* key and by the alternative key, these two not set, empty or set
InfoTags ==
    { [NoTag EXCEPT !.envconfig = a, !.default = d, !.required = r] :
        a \in {<<>>, sAlt}, d \in {<<>>, <<"9">>},
        r \in {<<>>, sTrue, sFalse} }

InfoFields ==
    { [Leaf(sPort, kind, tag) EXCEPT !.Ptr = ptr] :
        kind \in {"int", "string"}, tag \in InfoTags, ptr \in BOOLEAN }

\* the names processInfo looks up for a descriptor
LookedUp(d) == IF d.Alt # <<>> /\ d.Alt # d.Key THEN <<d.Key, d.Alt>>
               ELSE <<d.Key>>

InitInfo ==
    \E f \in InfoFields, pfx \in {<<>>, sApp}, req \in BOOLEAN :
    \E st \in Stores(<<f>>) :
    \E opts \in {[SplitWords |-> FALSE, Required |-> req,
                  ParallelExcecution |-> FALSE]} :
    \E names \in {LookedUp(gatherInfo(pfx, <<f>>, <<>>, st, opts)[1])} :
    \E choice \in [1..Len(names) -> Choices({<<>>, <<"7">>})] :
      /\ Start(pfx, <<f>>, opts, Environ(names, choice), st)
      /\ pc = "call"

InfoSpec == InitInfo /\ [][Next]_vars

\* longest string drawn for a map field
MaxLen == 5

MapAlphabet == {"a", "b", ":", ",", " "}

sTags == <<"T","a","g","s">>

\* type Config struct { Tags map[string]string }, with APP_TAGS set
InitMap ==
    \E v \in Strings(MapAlphabet, MaxLen) :
    \E flds \in {<<Leaf(sTags, "map", NoTag)>>} :
      /\ Start(sApp, flds,
               [SplitWords |-> FALSE, Required |-> FALSE,
                ParallelExcecution |-> FALSE],
               <<ToUpper(sApp \o <<"_">> \o sTags) \o <<"=">> \o v>>,
               ZeroStore(flds))
      /\ pc = "call"

MapSpec == InitMap /\ [][Next]_vars

sMyURL == <<"M","y","U","R","L">>
sAlias == <<"a","l","i","a","s">>
sBase == <<"B","a","s","e">>
sCache == <<"C","a","c","h","e">>
sKv == <<"k","v">>
sAt == <<"A","t">>

\* fields without fields of their own
LeafPool ==
    { Leaf(sPort, "int", NoTag),
      Leaf(sMyURL, "string", NoTag),
      Leaf(sName, "string", [NoTag EXCEPT !.envconfig = sAlias]) }

\* Db struct{...}; Base (embedded); Log *struct{...};
\* Cache struct{...} `envconfig:"kv"`
Wrap(flds) ==
    { Struct(sDb, FALSE, FALSE, NoTag, flds),
      Struct(sBase, TRUE, FALSE, NoTag, flds),
      Struct(sLog, FALSE, TRUE, NoTag, flds),
      Struct(sCache, FALSE, FALSE, [NoTag EXCEPT !.envconfig = sKv], flds) }

\* At is a struct type with a Decode method
DecoderField == [Struct(sAt, FALSE, FALSE, NoTag, <<>>) EXCEPT !.Decoder = TRUE]

\* the fields a nested struct is drawn with: one leaf, or one struct of one
\* leaf
Inner ==
    {<<f>> : f \in LeafPool}
      \cup {<<g>> : g \in {w \in Wrap(<<Leaf(sPort, "int", NoTag)>>) :
                               w.Name \in {sDb, sBase}}}

TopPool ==
    LeafPool \cup {DecoderField} \cup UNION {Wrap(flds) : flds \in Inner}

\* most top-level fields of a struct drawn for discovery
MaxTop == 2

DistinctNames(flds) ==
    \A a, b \in 1..Len(flds) : a # b => flds[a].Name # flds[b].Name

\* a call of CheckDisallowedWithOptions
CheckCall(pfx, flds, sw, env) ==
    /\ Start(pfx, flds,
             [SplitWords |-> sw, Required |-> FALSE,
              ParallelExcecution |-> FALSE], env, ZeroStore(flds))
    /\ pc = "check"

InitGather ==
    \E flds \in {q \in InjSeqs(TopPool, MaxTop) : Len(q) > 0 /\ DistinctNames(q)},
       pfx \in {<<>>, sApp}, sw \in BOOLEAN :
      CheckCall(pfx, flds, sw, <<sOld \o <<"=">> \o sTrue>>)

GatherSpec == InitGather /\ [][NextCheck]_vars

\* most variables of a drawn environment
MaxEnv == 2

EnvPool ==
    { <<"A","P","P","_","P","O","R","T","=","1">>, <<"A","P","P","_","U","N","K","N","O","W","N","=">>,
      <<"A","P","P","_","D","B","_","P","O","R","T","=","2">>, <<"P","O","R","T","=","3">>,
      <<"a","p","p","_","p","o","r","t","=","4">>, <<"A","P","P","X","=","5">> }

CheckStructs ==
    { <<Leaf(sPort, "int", NoTag)>>,
      <<Leaf(sPort, "int", NoTag),
        Struct(sDb, FALSE, FALSE, NoTag, <<Leaf(sPort, "int", NoTag)>>)>>,
      <<Struct(sBase, TRUE, FALSE, NoTag, <<Leaf(sPort, "int", NoTag)>>),
        Leaf(sName, "string", [NoTag EXCEPT !.envconfig = sAlias])>> }

InitCheck ==
    \E flds \in CheckStructs, pfx \in {<<>>, sApp, ToUpper(sApp)},
       env \in InjSeqs(EnvPool, MaxEnv) :
      CheckCall(pfx, flds, FALSE, env)

CheckSpec == InitCheck /\ [][NextCheck]_vars

-----------------------------------------------------------------------------
(* Properties of ProcessWithOptions *)

\* the struct value the descriptors are resolved against
Gathered == gatherStore(fields, store0)

\* what resolving descriptor k alone gives
Outcome(k) ==
    processInfo(infos[k], options, Gathered[infos[k].Field.path])

Failing == {k \in 1..Len(infos) : Outcome(k).err # NoError}

PathOf(k) == infos[k].Field.path

SeqReturned == pc = "returned" /\ ~options.ParallelExcecution

ParReturned == pc = "returned" /\ options.ParallelExcecution

\* C3: without parallel execution the descriptors are resolved in discovery
\* order, each at most once; the call returns the error of the first failing
\* descriptor, the fields before it hold what they were populated with, and
\* the descriptors after it are not resolved and their fields hold what they
\* held before the call.
SequentialFailFast ==
    (~options.ParallelExcecution /\ pc \in {"seq", "returned"}) =>
       /\ \A k \in 1..Len(infos) :
            resolved[k] = IF k < idx \/ (k = idx /\ ret # NoError)
                          THEN 1 ELSE 0
       /\ (pc = "returned" /\ ret # NoError) =>
            /\ idx \in Failing /\ ret = Outcome(idx).err
            /\ \A k \in 1..(idx-1) :
                 k \notin Failing /\ store[PathOf(k)] = Outcome(k).val
            /\ \A k \in (idx+1)..Len(infos) :
                 store[PathOf(k)] = store0[PathOf(k)]
       /\ (pc = "returned" /\ ret = NoError) =>
            /\ Failing = {}
            /\ \A k \in 1..Len(infos) : store[PathOf(k)] = Outcome(k).val

\* a sequential call that failed on a descriptor with one populated before it
\* and one left alone after it
SequentialFailFastWitness ==
    /\ SeqReturned /\ ret # NoError
    /\ idx > 1 /\ idx < Len(infos)
    /\ store[PathOf(1)] # store0[PathOf(1)]
    /\ lookupEnv(infos[Len(infos)].Key).ok

Count(q, e) == Cardinality({k \in 1..Len(q) : q[k] = e})

\* C4: with parallel execution, when the call returns every descriptor has
\* been resolved exactly once (and never more than once before), and it
\* returns the aggregate exactly when some descriptor failed, the aggregate
\* holding the errors of the failing descriptors, each once, and nothing else.
ParallelCollectsAll ==
    options.ParallelExcecution =>
       /\ \A k \in 1..Len(resolved) : resolved[k] <= 1
       /\ pc = "returned" =>
            /\ \A k \in 1..Len(infos) : resolved[k] = 1
            /\ (ret.type = "multiple") = (Failing # {})
            /\ Failing = {} => ret = NoError
            /\ Len(ret.all) = Cardinality(Failing)
            /\ \A k \in Failing :
                 Count(ret.all, Outcome(k).err)
                   = Cardinality({j \in Failing :
                                    Outcome(j).err = Outcome(k).err})

\* a parallel call in which two descriptors failed and the aggregate arrived
\* in the order opposite to discovery
ParallelCollectsAllWitness ==
    /\ ParReturned /\ Cardinality(Failing) = 2 /\ Len(infos) = 2
    /\ ret.all[1] = Outcome(2).err /\ ret.all[1] # ret.all[2]

\* the errors a call returned, as a set
ErrSet(e) ==
    IF e.type = "multiple" THEN {e.all[k] : k \in 1..Len(e.all)}
    ELSE IF e = NoError THEN {} ELSE {e}

BothReturned == pc = "returned" /\ first.done

\* C5 as stated: the sequential and the parallel call, from the same struct
\* value, leave the same struct value and return the same set of errors.
ParallelEqualsSequential ==
    BothReturned => store = first.store /\ ErrSet(ret) = ErrSet(first.ret)

\* C5 amended: the two calls agree in full when no descriptor fails.  When one
\* fails, the sequential call returns the error of the first failing
\* descriptor alone, which is one of the errors of the parallel call, and the
\* two struct values agree on the fields discovered up to and including that
\* descriptor and on the pointers discovery allocates; the fields after it
\* were populated by the parallel call only.
ParallelExtendsSequential ==
    BothReturned =>
       /\ (ErrSet(first.ret) = {}) = (ErrSet(ret) = {})
       /\ ErrSet(ret) = {} => store = first.store
       /\ ErrSet(first.ret) \subseteq ErrSet(ret)
       /\ ErrSet(first.ret) # {} =>
            /\ ErrSet(first.ret) = {Outcome(first.idx).err}
            /\ \A k \in 1..first.idx :
                 store[PathOf(k)] = first.store[PathOf(k)]
            /\ \A k \in (first.idx+1)..Len(infos) :
                 /\ first.store[PathOf(k)] = store0[PathOf(k)]
                 /\ store[PathOf(k)] = Outcome(k).val
            /\ \A p \in DOMAIN store \ {PathOf(k) : k \in 1..Len(infos)} :
                 store[p] = first.store[p]

\* both calls returned, the sequential one failed on the first descriptor and
\* the parallel one populated the second
ParallelExtendsSequentialWitness ==
    /\ BothReturned /\ first.idx = 1 /\ first.ret # NoError
    /\ Len(infos) = 2 /\ store[PathOf(2)] # first.store[PathOf(2)]

\* a struct all of whose fields are optional, with none of its keys set
AllOptional ==
    /\ ~options.Required
    /\ \A p \in DOMAIN store :
         /\ DeclAt(fields, p).Tag.required = <<>>
         /\ DeclAt(fields, p).Tag.default = <<>>
    /\ environ = <<>>
    /\ store0 = ZeroStore(fields)

ParallelTerminates ==
    (pc = "spawn" /\ idx = 1)
       ~> (pc = "returned" /\ \A g \in DOMAIN gpc : gpc[g] = "exited")

\* a parallel call over two descriptors has returned, the channel drained
ParallelTerminatesWitness ==
    /\ ParReturned /\ Len(infos) = 2 /\ errCh = <<>>
    /\ \A g \in DOMAIN gpc : gpc[g] = "exited"

-----------------------------------------------------------------------------
(* Properties of processInfo *)

\* the environment read by name, entry by entry
SetAt(name) == {k \in 1..Len(environ) : SplitN2First(environ[k], "=") = name}

IsSet(name) == SetAt(name) # {}

SetTo(name) ==
    LET k == CHOOSE i \in SetAt(name) : \A j \in SetAt(name) : i <= j
    IN  SubSeq(environ[k], Len(name) + 2, Len(environ[k]))

\* neither the key nor the alternative key is set and there is no default
NoValue(d) ==
    /\ ~IsSet(d.Key)
    /\ d.Alt = <<>> \/ ~IsSet(d.Alt)
    /\ d.Tags.default = <<>>

MustHaveValue(d) ==
    \/ d.Tags.required = sTrue
    \/ options.Required /\ d.Tags.required # sFalse

\* C1: a descriptor with no value under its key or its alternative key and no
\* default gives the required-value error, naming the alternative key when
\* there is one and the key otherwise, exactly when the field is tagged
\* required=true or the Required option is on and the field is not tagged
\* required=false; in every other such case it gives no error and the field
\* holds what it held before the call.
RequiredOrUntouched ==
    \A k \in 1..Len(infos) :
      (resolved[k] = 1 /\ NoValue(infos[k])) =>
         IF MustHaveValue(infos[k])
         THEN gres[k] = RequiredMissing(IF infos[k].Alt # <<>>
                                        THEN infos[k].Alt ELSE infos[k].Key)
         ELSE gres[k] = NoError /\ store[PathOf(k)] = store0[PathOf(k)]

\* the Required option made a field with an alternative key and no required
\* tag fail, and the error names the alternative key
RequiredOrUntouchedWitness ==
    /\ Len(infos) = 1 /\ resolved[1] = 1 /\ NoValue(infos[1])
    /\ options.Required /\ infos[1].Tags.required = <<>>
    /\ infos[1].Alt # <<>> /\ infos[1].Alt # infos[1].Key
    /\ gres[1].type = "required" /\ gres[1].key = infos[1].Alt
    /\ pc = "returned" /\ ret = gres[1]

\* the strings processInfo is to hand to processField: none or one
Precedence(d) ==
    IF IsSet(d.Key) THEN <<SetTo(d.Key)>>
    ELSE IF d.Alt # <<>> /\ IsSet(d.Alt) THEN <<SetTo(d.Alt)>>
    ELSE IF d.Tags.default # <<>> THEN <<d.Tags.default>>
    ELSE <<>>

\* C2: the string handed to the conversion is the value of the key when the
\* key is set, the empty value included; else the value of the alternative key
\* when there is one and it is set; else the default when there is one; a
\* default never stands in for a variable that is set, and nothing is
\* converted when none of the three gives a value.
HandedByPrecedence ==
    \A k \in 1..Len(infos) :
      resolved[k] = 1 => handed[k] = Precedence(infos[k])

\* the key is set to the empty string, there is a default, and the empty
\* string was handed to the conversion
HandedByPrecedenceWitness ==
    /\ Len(infos) = 1 /\ resolved[1] = 1
    /\ IsSet(infos[1].Key) /\ SetTo(infos[1].Key) = <<>>
    /\ infos[1].Tags.default # <<>>
    /\ handed[1] = << <<>> >>

-----------------------------------------------------------------------------
(* Properties of the map case of processField *)

Colons(pair) == Cardinality({i \in 1..Len(pair) : pair[i] = ":"})

BeforeColon(pair) == SubSeq(pair, 1, IndexOf(pair, ":") - 1)

AfterColon(pair) == SubSeq(pair, IndexOf(pair, ":") + 1, Len(pair))

\* the map the pairs ps stand for, each cut at its first colon, a later pair
\* overwriting an earlier one with the same key
MapOfPairs(ps) ==
    [key \in {BeforeColon(ps[i]) : i \in 1..Len(ps)} |->
       AfterColon(ps[CHOOSE i \in 1..Len(ps) :
                       /\ BeforeColon(ps[i]) = key
                       /\ \A j \in (i+1)..Len(ps) : BeforeColon(ps[j]) # key])]

IsInvalidMapItem(err) ==
    err.type = "parse" /\ err.cause # NoCause
       /\ err.cause.what = "invalid map item"

\* descriptor k is a map that was handed a string that is not blank
MapHanded(k) ==
    /\ resolved[k] = 1 /\ infos[k].Field.Kind = "map"
    /\ handed[k] # <<>> /\ ~IsBlank(handed[k][1])

\* the pairs descriptor k was handed
PairsOf(k) == Split(handed[k][1], ",")

\* the places of those that do not have a number of colons that is in ok
PairsNot(k, ok) ==
    {i \in 1..Len(PairsOf(k)) : Colons(PairsOf(k)[i]) \notin ok}

\* C9 as stated: each pair is cut at its first colon, what follows being the
\* value; the invalid-map-entry error is given exactly when a pair has no
\* colon, and otherwise the field holds the map of the pairs, last one wins.
MapSplitsOnFirstColon ==
    \A k \in 1..Len(infos) :
      MapHanded(k) =>
         /\ IsInvalidMapItem(gres[k]) = (PairsNot(k, Nat \ {0}) # {})
         /\ PairsNot(k, Nat \ {0}) = {} =>
              /\ gres[k] = NoError
              /\ store[PathOf(k)] = MapOfPairs(PairsOf(k))

\* C9 amended: each pair is cut at every colon; the invalid-map-entry error is
\* given exactly when a pair does not have exactly one colon, it names the
\* first such pair and the field holds what it held; otherwise the field holds
\* the map of the pairs, last one wins.
MapSplitsOnEveryColon ==
    \A k \in 1..Len(infos) :
      MapHanded(k) =>
         /\ IsInvalidMapItem(gres[k]) = (PairsNot(k, {1}) # {})
         /\ PairsNot(k, {1}) # {} =>
              /\ gres[k].cause =
                   InvalidMapItem(
                     PairsOf(k)[CHOOSE i \in PairsNot(k, {1}) :
                                  \A j \in PairsNot(k, {1}) : i <= j])
              /\ store[PathOf(k)] = store0[PathOf(k)]
         /\ PairsNot(k, {1}) = {} =>
              /\ gres[k] = NoError
              /\ store[PathOf(k)] = MapOfPairs(PairsOf(k))

\* a pair with two colons was refused
MapSplitsOnEveryColonWitness ==
    /\ Len(infos) = 1 /\ MapHanded(1)
    /\ \E i \in PairsNot(1, {1}) : Colons(PairsOf(1)[i]) = 2
    /\ IsInvalidMapItem(gres[1])
    /\ pc = "returned"

-----------------------------------------------------------------------------
(* Properties of CheckDisallowedWithOptions and gatherInfo *)

SharesPrefix(name) ==
    prefix = <<>> \/ HasPrefix(name, ToUpper(prefix) \o <<"_">>)

\* the entries whose name shares the prefix and is no descriptor's key
Disallowed ==
    {k \in 1..Len(environ) :
        /\ SharesPrefix(SplitN2First(environ[k], "="))
        /\ \A d \in 1..Len(infos) :
             infos[d].Key # SplitN2First(environ[k], "=")}

\* C8: the check fails exactly when the environment has a variable that shares
\* the prefix (upper-cased, followed by an underscore) and whose name is the
\* key of no descriptor; the error names the first such variable.
UnknownIffDisallowed ==
    pc = "returned" =>
       /\ (ret # NoError) = (Disallowed # {})
       /\ Disallowed # {} =>
            ret = UnknownVariable(
                    SplitN2First(
                      environ[CHOOSE i \in Disallowed :
                                \A j \in Disallowed : i <= j], "="))

\* under a prefix, a variable that is a key was passed over and a later one
\* that is not was refused
UnknownIffDisallowedWitness ==
    /\ pc = "returned" /\ ret.type = "unknown" /\ prefix # <<>>
    /\ idx = 2 /\ SharesPrefix(SplitN2First(environ[1], "="))
    /\ \E d \in 1..Len(infos) : infos[d].Key = SplitN2First(environ[1], "=")

Prefixed(p, ks) == [i \in 1..Len(ks) |-> p \o <<"_">> \o ks[i]]

\* the keys of the fields flds under the prefix pfx, those of a named nested
\* struct being its own key, an underscore, and the keys its fields have
\* without a prefix, and those of an embedded one the keys its fields have
\* under pfx
RECURSIVE NestedKeys(_, _, _)
NestedKeys(pfx, flds, opts) ==
    Flatten([k \in 1..Len(flds) |->
       IF ~Retained(flds[k]) THEN <<>>
       ELSE IF ~IsRecursed(flds[k]) THEN <<fieldKey(pfx, flds[k], opts)>>
       ELSE IF flds[k].Anonymous THEN NestedKeys(pfx, flds[k].Fields, opts)
       ELSE Prefixed(fieldKey(pfx, flds[k], opts),
                     NestedKeys(<<>>, flds[k].Fields, opts))])

\* path p comes before path q in declaration order
Before(p, q) ==
    \E i \in 1..Len(p) :
       /\ i <= Len(q) /\ p[i] < q[i]
       /\ \A j \in 1..(i-1) : p[j] = q[j]

\* C10: the key of a field of a named nested struct is the key of the struct,
\* an underscore and the field's own key; the key of a field of an embedded
\* struct is formed under the prefix of the struct that embeds it; and the
\* descriptors of a nested struct's fields stand where the struct's own would,
\* in declaration order.
NestedKeysCompose ==
    pc # "check" =>
       /\ KeysOf(infos) = NestedKeys(prefix, fields, options)
       /\ \A k \in 1..Len(infos) :
            /\ ~IsRecursed(DeclAt(fields, PathOf(k)))
            /\ \A j \in 1..(k-1) : Before(PathOf(j), PathOf(k))

\* discovery under a prefix of a struct with an embedded struct and a named
\* struct that holds another
NestedKeysComposeWitness ==
    /\ pc = "returned" /\ prefix # <<>> /\ Len(fields) = 2
    /\ fields[1].Kind = "struct" /\ fields[1].Anonymous
    /\ fields[2].Kind = "struct" /\ ~fields[2].Anonymous
    /\ fields[2].Fields[1].Kind = "struct"
    /\ Len(infos) = 2

====
